---- MODULE Spec2Model ----
(***************************************************************************)
(* ConfigService of toybox-mcp-server (dist/services/config.js): the       *)
(* durable configuration store (read / write / update with a lock file)    *)
(* and the repository registry built on it.                                *)
(*                                                                         *)
(* The file system is modelled at the granularity of the awaited fs calls: *)
(* the config path, its sibling .tmp path and the sibling lock marker.     *)
(* Every caller (task or process) steps through its call one awaited       *)
(* operation at a time.                                                    *)
(***************************************************************************)
EXTENDS Integers, Sequences, FiniteSets, TLC

\* ------------------------------------------------------------ bounds
\* Highest value of the clock (new Date()) in the single-caller specification.
MaxClock == 2
\* Number of calls issued in one behaviour of the concurrent specification.
MaxCalls == 2
\* Length of the repositories list beyond which the registry specification
\* issues no call that appends.
MaxRepos == 2

\* --------------------------------------------------------- constants
lockRetries == 5

CONFIG_VERSION == "1.0.0"
OldVersion == "0.9.0"

Procs == {"p1", "p2"}
NoProc == "none"
Names == {"alpha", "beta"}

\* A string-valued field that is undefined (absent from the JSON document).
UndefStr == "<undefined>"
\* The empty string: a string for the schema, falsy for `!` and `||`.
EmptyStr == ""
\* A timestamp field that is undefined.
UndefTime == -2
\* The empty string in a timestamp field: a string for the schema, falsy for ||.
EmptyTime == -1

DefaultPrefs == [defaultRepoName |-> "toybox", autoCommit |-> TRUE,
                 commitMessage |-> "feat: Add new artifact via TOYBOX"]

\* ------------------------------------------------------------- schema
RepoValid(r) ==
    /\ r.name # UndefStr
    /\ r.localPath # UndefStr
    /\ r.createdAt # UndefTime
    /\ r.lastUsedAt # UndefTime

ConfigValid(c) ==
    /\ c.lastUpdated # UndefTime
    /\ \A i \in DOMAIN c.repositories : RepoValid(c.repositories[i])

createDefaultConfig(t) ==
    [version |-> CONFIG_VERSION,
     repositories |-> << >>,
     activeRepository |-> UndefStr,
     debug |-> FALSE,
     lastUpdated |-> t,
     preferences |-> DefaultPrefs]

\* A migration that hands the stored document back with its stored version.
migrateKeepVersion(c) == c

\* A migration that answers an old version with a fresh default.
migrateReset(c) ==
    IF c.version # CONFIG_VERSION THEN createDefaultConfig(c.lastUpdated) ELSE c

migrate(c) ==
    IF c.version # CONFIG_VERSION THEN [c EXCEPT !.version = CONFIG_VERSION] ELSE c

\* ------------------------------------------------------ file contents
Absent == [kind |-> "absent", len |-> 0]
Empty == [kind |-> "empty", len |-> 0]
Garbage(n) == [kind |-> "garbage", len |-> n]
\* JSON.stringify(config, null, 2): the serialized length grows with the
\* number of repository records.
Json(c) == [kind |-> "json", len |-> 1 + Len(c.repositories), doc |-> c]

\* The bytes of a file after `data` is written at offset 0 over `old` (the
\* descriptor was opened with O_TRUNC, and others may have written since).
Overlay(old, data) ==
    IF old.len > data.len THEN Garbage(old.len) ELSE data

\* JSON.parse followed by ToyboxConfigSchema.parse.
ParseOutcome(content) ==
    CASE content.kind = "json" /\ ConfigValid(content.doc) -> "valid"
      [] content.kind = "json" -> "zod"
      [] OTHER -> "syntax"

\* ------------------------------------------------- registry updaters
IndexOf(repos, n) ==
    IF \E i \in DOMAIN repos : repos[i].name = n
    THEN CHOOSE i \in DOMAIN repos :
            /\ repos[i].name = n
            /\ \A j \in DOMAIN repos : repos[j].name = n => i <= j
    ELSE 0

Filter(repos, n) == SelectSeq(repos, LAMBDA r : r.name # n)

Thrown(e) == [ok |-> FALSE, err |-> e, config |-> createDefaultConfig(0)]
Returned(c) == [ok |-> TRUE, err |-> "", config |-> c]

\* setActiveRepository without its existence check.
setActiveUpdaterNoCheck(config, repoName) ==
    Returned([config EXCEPT
        !.repositories = [i \in DOMAIN config.repositories |->
            [config.repositories[i] EXCEPT
                !.isActive = (config.repositories[i].name = repoName)]],
        !.activeRepository = repoName])

\* setActiveRepository moving the pointer and leaving the flags alone.
setActiveUpdaterPointerOnly(config, repoName) ==
    IF IndexOf(config.repositories, repoName) = 0
    THEN Thrown("NotFound")
    ELSE Returned([config EXCEPT !.activeRepository = repoName])

setActiveUpdater(config, repoName) ==
    IF IndexOf(config.repositories, repoName) = 0
    THEN Thrown("NotFound")
    ELSE Returned([config EXCEPT
            !.repositories = [i \in DOMAIN config.repositories |->
                [config.repositories[i] EXCEPT
                    !.isActive = (config.repositories[i].name = repoName)]],
            !.activeRepository = repoName])

\* {...old, ...repo}: every own property of repo replaces old's.
Spread(old, repo) ==
    [name |-> repo.name,
     localPath |-> repo.localPath,
     remoteUrl |-> IF repo.remoteUrl = UndefStr THEN old.remoteUrl ELSE repo.remoteUrl,
     createdAt |-> repo.createdAt,
     lastUsedAt |-> repo.lastUsedAt,
     isActive |-> repo.isActive]

\* The first repository gets the pointer and keeps the flag it came with.
FirstIsActivePointerOnly(config, repo) ==
    IF Len(config.repositories) = 1
    THEN [config EXCEPT !.activeRepository = repo.name]
    ELSE config

FirstIsActive(config, repo) ==
    IF Len(config.repositories) = 1
    THEN [config EXCEPT !.activeRepository = repo.name,
                        !.repositories[1].isActive = TRUE]
    ELSE config

\* upsertRepository that takes an existing record out and puts the merged one
\* at the end of the list.
upsertUpdaterMoveToEnd(config, repo, t) ==
    LET existingIndex == IndexOf(config.repositories, repo.name)
        stored ==
            IF existingIndex > 0
            THEN [config EXCEPT !.repositories = Append(Filter(@, repo.name),
                     [Spread(config.repositories[existingIndex], repo)
                        EXCEPT !.lastUsedAt = t])]
            ELSE [config EXCEPT !.repositories = Append(@,
                     [repo EXCEPT
                        !.createdAt = IF repo.createdAt = EmptyTime THEN t ELSE @,
                        !.lastUsedAt = t])]
    IN Returned(FirstIsActive(stored, repo))

upsertUpdater(config, repo, t) ==
    LET existingIndex == IndexOf(config.repositories, repo.name)
        stored ==
            IF existingIndex > 0
            THEN [config EXCEPT !.repositories[existingIndex] =
                     [Spread(@, repo) EXCEPT !.lastUsedAt = t]]
            ELSE [config EXCEPT !.repositories = Append(@,
                     [repo EXCEPT
                        !.createdAt = IF repo.createdAt = EmptyTime THEN t ELSE @,
                        !.lastUsedAt = t])]
    IN Returned(FirstIsActive(stored, repo))

\* removeRepository clearing the pointer without promoting a remaining record.
removeUpdaterNoPromote(config, repoName) ==
    LET rest == Filter(config.repositories, repoName)
        c1 == [config EXCEPT !.repositories = rest]
    IN Returned(
        IF config.activeRepository = repoName
        THEN [c1 EXCEPT !.activeRepository = UndefStr]
        ELSE c1)

\* removeRepository that filters the list and leaves the pointer alone.
removeUpdaterKeepsPointer(config, repoName) ==
    Returned([config EXCEPT !.repositories = Filter(config.repositories, repoName)])

\* removeRepository clearing the pointer whichever record it removes.
removeUpdaterResetsPointer(config, repoName) ==
    Returned([config EXCEPT !.repositories = Filter(config.repositories, repoName),
                            !.activeRepository = UndefStr])

removeUpdater(config, repoName) ==
    LET rest == Filter(config.repositories, repoName)
        c1 == [config EXCEPT !.repositories = rest]
    IN Returned(
        IF config.activeRepository = repoName
        THEN IF Len(rest) > 0
             THEN [c1 EXCEPT !.repositories[1].isActive = TRUE,
                             !.activeRepository = rest[1].name]
             ELSE [c1 EXCEPT !.activeRepository = UndefStr]
        ELSE c1)

\* touchRepository refreshing lastUsedAt of every record once the name is found.
touchUpdaterEvery(config, repoName, t) ==
    LET repos == config.repositories
    IN IF IndexOf(repos, repoName) > 0
       THEN Returned([config EXCEPT !.repositories =
                         [i \in DOMAIN repos |-> [repos[i] EXCEPT !.lastUsedAt = t]]])
       ELSE Returned(config)

\* touchRepository: repo.lastUsedAt = new Date() on the record found by name.
touchUpdater(config, repoName, t) ==
    LET i == IndexOf(config.repositories, repoName)
    IN IF i > 0
       THEN Returned([config EXCEPT !.repositories[i].lastUsedAt = t])
       ELSE Returned(config)

\* Object.assign(repo, updates): every own property of updates replaces
\* repo's; an undefined field of `updates` stands for a property it lacks.
Assign(repo, updates) ==
    [repo EXCEPT
        !.name = IF updates.name = UndefStr THEN @ ELSE updates.name,
        !.localPath = IF updates.localPath = UndefStr THEN @ ELSE updates.localPath,
        !.remoteUrl = IF updates.remoteUrl = UndefStr THEN @ ELSE updates.remoteUrl,
        !.createdAt = IF updates.createdAt = UndefTime THEN @ ELSE updates.createdAt,
        !.lastUsedAt = IF updates.lastUsedAt = UndefTime THEN @ ELSE updates.lastUsedAt]

updateUpdater(config, repoName, updates, t) ==
    LET i == IndexOf(config.repositories, repoName)
    IN IF i > 0
       THEN Returned([config EXCEPT !.repositories[i] =
                         [Assign(@, updates) EXCEPT !.lastUsedAt = t]])
       ELSE Returned(config)

\* `!config.activeRepository`: undefined and the empty string are falsy.
getActiveRepository(config) ==
    IF config.activeRepository \in {UndefStr, EmptyStr}
    THEN IF \E i \in DOMAIN config.repositories : config.repositories[i].isActive
         THEN LET i == CHOOSE i \in DOMAIN config.repositories :
                         /\ config.repositories[i].isActive
                         /\ \A j \in DOMAIN config.repositories :
                               config.repositories[j].isActive => i <= j
              IN <<config.repositories[i]>>
         ELSE << >>
    ELSE IF IndexOf(config.repositories, config.activeRepository) > 0
         THEN <<config.repositories[IndexOf(config.repositories, config.activeRepository)]>>
         ELSE << >>


\* -------------------------------------------------------------- calls
NoRepoArg == [name |-> UndefStr, localPath |-> UndefStr, remoteUrl |-> UndefStr,
              createdAt |-> UndefTime, lastUsedAt |-> UndefTime, isActive |-> FALSE]

ReadOp == [kind |-> "read", name |-> UndefStr, repo |-> NoRepoArg]
UpsertOp(r) == [kind |-> "upsertRepository", name |-> r.name, repo |-> r]
SetActiveOp(n) == [kind |-> "setActiveRepository", name |-> n, repo |-> NoRepoArg]
RemoveOp(n) == [kind |-> "removeRepository", name |-> n, repo |-> NoRepoArg]

\* write(config) called directly, and getActiveRepository().
WriteOp(c) == [kind |-> "write", name |-> UndefStr, repo |-> NoRepoArg, config |-> c]
GetActiveOp == [kind |-> "getActiveRepository", name |-> UndefStr, repo |-> NoRepoArg]

\* The calls that go through update().
TouchOp(n) == [kind |-> "touchRepository", name |-> n, repo |-> NoRepoArg]
\* updateRepository(n, updates): `repo` carries the Partial record `updates`.
UpdateOp(n, updates) == [kind |-> "updateRepository", name |-> n, repo |-> updates]

\* update(fn) with a function of the caller's own: one that throws a plain
\* Error, one that throws an error carrying code 'ENOENT', one that throws
\* that error only for a config that lists a repository, one that returns.
Fns == {"throwsError", "throwsEnoent", "statsRepos", "setsDebug"}
fnUpdater(config, f) ==
    CASE f = "throwsError" -> Thrown("Error")
      [] f = "throwsEnoent" -> Thrown("ENOENT")
      [] f = "statsRepos" ->
            IF Len(config.repositories) > 0
            THEN Thrown("ENOENT")
            ELSE Returned([config EXCEPT !.debug = TRUE])
      [] OTHER -> Returned([config EXCEPT !.debug = TRUE])
UpdateFnOp(f) == [kind |-> "update", name |-> f, repo |-> NoRepoArg]

UpdateKinds == {"upsertRepository", "setActiveRepository", "removeRepository",
                "touchRepository", "updateRepository", "update"}

\* The updater closure each registry operation hands to update().
ApplyUpdater(o, config, t) ==
    CASE o.kind = "upsertRepository" -> upsertUpdater(config, o.repo, t)
      [] o.kind = "setActiveRepository" -> setActiveUpdater(config, o.name)
      [] o.kind = "removeRepository" -> removeUpdater(config, o.name)
      [] o.kind = "touchRepository" -> touchUpdater(config, o.name, t)
      [] o.kind = "updateRepository" -> updateUpdater(config, o.name, o.repo, t)
      [] o.kind = "update" -> fnUpdater(config, o.name)
      [] OTHER -> Returned(config)

\* Records a caller may pass to upsertRepository.
RepoArgs(times, urls, flags) ==
    [name : Names, localPath : {"/tmp/x"}, remoteUrl : urls,
     createdAt : times, lastUsedAt : {0}, isActive : flags]

SeqOps ==
    {ReadOp}
    \cup {UpsertOp(r) : r \in RepoArgs({0}, {UndefStr}, BOOLEAN)}
    \cup {SetActiveOp(n) : n \in Names}
    \cup {RemoveOp(n) : n \in Names}

\* The calls of the concurrent specification; upserts as the initialize
\* handler issues them (isActive: true).
ConcOps ==
    {ReadOp}
    \cup {UpsertOp(r) : r \in RepoArgs({0}, {UndefStr}, {TRUE})}
    \cup {SetActiveOp(n) : n \in Names}
    \cup {RemoveOp(n) : n \in Names}

\* The Partial records of the registry specification's updateRepository
\* calls: nothing, a new name, a new createdAt.
UpdateArgs ==
    {NoRepoArg}
    \cup {[NoRepoArg EXCEPT !.name = n] : n \in Names}
    \cup {[NoRepoArg EXCEPT !.createdAt = 0]}

\* The calls of the registry specification; upsertRepository with an old or
\* a later createdAt.
RegOps ==
    {UpsertOp(r) : r \in RepoArgs({0, 1}, {UndefStr}, {FALSE})}
    \cup {UpdateOp(n, u) : n \in Names, u \in UpdateArgs}
    \cup {TouchOp(n) : n \in Names}
    \cup {SetActiveOp(n) : n \in Names}
    \cup {RemoveOp(n) : n \in Names}

\* Configuration objects a caller may hand to write() at time t: current or
\* old version, with or without a repository, with or without the pointer, a
\* lastUpdated that is missing, old or current; and objects with a repository
\* record that lacks its name.
WriteArgs(t) ==
    [version : {CONFIG_VERSION, OldVersion},
     repositories : {<< >>,
                     <<[name |-> "alpha", localPath |-> "/tmp/x", remoteUrl |-> UndefStr,
                        createdAt |-> 0, lastUsedAt |-> 0, isActive |-> TRUE]>>,
                     <<[name |-> UndefStr, localPath |-> "/tmp/x", remoteUrl |-> UndefStr,
                        createdAt |-> 0, lastUsedAt |-> 0, isActive |-> FALSE]>>},
     activeRepository : {UndefStr, "alpha"},
     debug : {FALSE},
     lastUpdated : {UndefTime, 0, t},
     preferences : {DefaultPrefs}]

\* The calls of the read/write specification.
RWOps(t) == {ReadOp} \cup {WriteOp(c) : c \in WriteArgs(t)}

\* -------------------------------------------------------------- state
VARIABLES
    cfg,      \* content at the config path
    tmp,      \* content at the sibling .tmp path
    lock,     \* holder of the sibling lock marker, or NoProc
    now,      \* the clock read by new Date()
    pc,       \* where each caller is in its call
    op,       \* the call each caller is executing
    cur,      \* the Configuration object a caller has in hand
    fd,       \* where the file a caller's writeFile opened is linked now
    retries,  \* failed lock attempts of the current update()
    release,  \* whether update()'s `release` is non-null
    wctx,     \* which call site invoked the write() in progress
    res,      \* outcome of each caller's call
    ncalls,   \* calls issued so far
    init0,    \* the content of the config path at the start
    saw,      \* what the read() of the current call parsed
    pre,      \* the content of the config path when the current call started
    prev,     \* the call a caller completed before its current read()
    stale,    \* whether the lock marker's mtime is older than lockStale
    h         \* the tool handler each caller is running, and its payload

vars == <<cfg, tmp, lock, now, pc, op, cur, fd, retries, release, wctx, res,
          ncalls, init0, saw, pre, prev, stale, h>>

NoRes == [status |-> "none", err |-> "", value |-> createDefaultConfig(0)]
Ok(c) == [status |-> "ok", err |-> "", value |-> c]
Err(e) == [status |-> "error", err |-> e, value |-> createDefaultConfig(0)]
\* getActiveRepository() resolves: the config it read and the record it found.
Found(c) == [status |-> "ok", err |-> "", value |-> c, found |-> getActiveRepository(c)]

\* No call precedes the current one, or the current one is not a read().
NoPrev == [op |-> ReadOp, boot |-> FALSE, res |-> NoRes]

SampleRepo(n, act) ==
    [name |-> n, localPath |-> "/tmp/x", remoteUrl |-> UndefStr,
     createdAt |-> 0, lastUsedAt |-> 0, isActive |-> act]

\* What the config path may hold before the first call.
InitContents ==
    { Absent,
      Json(createDefaultConfig(0)),
      Json([createDefaultConfig(0) EXCEPT !.version = OldVersion]),
      Json([createDefaultConfig(0) EXCEPT
              !.repositories = <<SampleRepo("alpha", TRUE)>>,
              !.activeRepository = "alpha"]),
      Garbage(1),
      Json([createDefaultConfig(0) EXCEPT !.lastUpdated = UndefTime]),
      Json([createDefaultConfig(0) EXCEPT
              !.repositories = <<SampleRepo(UndefStr, FALSE)>>]) }

\* Tool handlers (handlers/repository.js, publish.ts, list.ts) and the payloads
\* they return: `error` is the message, `cause` the message of a caught error.
RegistryHandlers ==
    {"list_repositories", "switch_repository", "remove_repository",
     "get_active_repository"}
ArtifactHandlers == {"publish_artifact", "list_artifacts"}
HandlerKinds == RegistryHandlers \cup ArtifactHandlers

NoPayload == [success |-> FALSE, error |-> "", cause |-> ""]
Success == [success |-> TRUE, error |-> "", cause |-> ""]
Failure(e) == [success |-> FALSE, error |-> e, cause |-> ""]
Caught(kind, e) == [success |-> FALSE, error |-> "Failed to " \o kind, cause |-> e]
NotFound == "Repository not found in configuration"
PathGone == "Repository path no longer exists"
NoActiveSwitch == "No active repository set. Use switch_repository to set one."
NoActiveInit ==
    "No active TOYBOX repository found. Please run initialize_toybox first or set an active repository."

NoHandler == [kind |-> "none", name |-> UndefStr, step |-> "idle", out |-> NoPayload]

InitFrom(contents) ==
    /\ cfg \in contents
    /\ tmp = Absent
    /\ lock = NoProc
    /\ now = 0
    /\ pc = [p \in Procs |-> "idle"]
    /\ op = [p \in Procs |-> ReadOp]
    /\ cur = [p \in Procs |-> createDefaultConfig(0)]
    /\ fd = [p \in Procs |-> "none"]
    /\ retries = [p \in Procs |-> 0]
    /\ release = [p \in Procs |-> FALSE]
    /\ wctx = [p \in Procs |-> "none"]
    /\ res = [p \in Procs |-> NoRes]
    /\ ncalls = 0
    /\ init0 = cfg
    /\ saw = [p \in Procs |-> "none"]
    /\ pre = [p \in Procs |-> cfg]
    /\ prev = [p \in Procs |-> NoPrev]
    /\ stale = FALSE
    /\ h = [p \in Procs |-> NoHandler]

Init == InitFrom(InitContents)


\* -------------------------------------------------------- continuations
\* The call of caller p ends: its promise settles with outcome r.
Settle(p, r) ==
    /\ pc' = [pc EXCEPT ![p] = "idle"]
    /\ res' = [res EXCEPT ![p] = r]

\* A finally block that releases only after a successful write.
FinallyLeak(p, r) ==
    IF release[p] /\ r.status = "ok"
    THEN /\ pc' = [pc EXCEPT ![p] = "u_release"]
         /\ res' = [res EXCEPT ![p] = r]
    ELSE Settle(p, r)

\* update() leaves its try/catch with outcome r: the finally block runs
\* `await release()` when the lock was acquired.
Finally(p, r) ==
    IF release[p]
    THEN /\ pc' = [pc EXCEPT ![p] = "u_release"]
         /\ res' = [res EXCEPT ![p] = r]
    ELSE Settle(p, r)

\* An error leaves read() or write(): a bare read() rejects, update() catches
\* it (it carries no ENOENT code), wraps it and runs its finally block.
Throws(p, e) ==
    IF op[p].kind \in UpdateKinds THEN Finally(p, Err(e)) ELSE Settle(p, Err(e))

\* read() returns config c to its caller.
ReadReturns(p, c) ==
    /\ cur' = [cur EXCEPT ![p] = c]
    /\ CASE op[p].kind = "read" -> Settle(p, Ok(c))
         [] op[p].kind = "getActiveRepository" -> Settle(p, Found(c))
         [] OTHER -> /\ pc' = [pc EXCEPT ![p] = "u_fn"]
                     /\ res' = res

\* The synchronous head of write(config): stamp lastUpdated, validate; the
\* first await follows.
Stamp(c, t) == [c EXCEPT !.lastUpdated = t]

\* write(config) that stamps only a document that carries no lastUpdated.
WriteBeginKeepStamp(p, c, site) ==
    LET d == IF c.lastUpdated = UndefTime THEN Stamp(c, now) ELSE c
    IN /\ cur' = [cur EXCEPT ![p] = d]
       /\ IF ConfigValid(d)
          THEN /\ pc' = [pc EXCEPT ![p] = "w_open"]
               /\ wctx' = [wctx EXCEPT ![p] = site]
               /\ res' = res
          ELSE /\ wctx' = wctx
               /\ Throws(p, "ZodError")

\* write(config) that stamps and goes on to the file without validating.
WriteBeginUnchecked(p, c, site) ==
    /\ cur' = [cur EXCEPT ![p] = Stamp(c, now)]
    /\ pc' = [pc EXCEPT ![p] = "w_open"]
    /\ wctx' = [wctx EXCEPT ![p] = site]
    /\ res' = res

WriteBegin(p, c, site) ==
    /\ cur' = [cur EXCEPT ![p] = Stamp(c, now)]
    /\ IF ConfigValid(Stamp(c, now))
       THEN /\ pc' = [pc EXCEPT ![p] = "w_open"]
            /\ wctx' = [wctx EXCEPT ![p] = site]
            /\ res' = res
       ELSE /\ wctx' = wctx
            /\ Throws(p, "ZodError")

\* ------------------------------------------------------ registry view
\* The repositories a read() issued now, with nothing else running, returns.
Registry(content) ==
    IF ParseOutcome(content) = "valid" THEN migrate(content.doc).repositories ELSE << >>

RegistryNames(content) ==
    {Registry(content)[i].name : i \in DOMAIN Registry(content)}

\* ------------------------------------------------------------ actions
\* A caller issues a call.
Start(p, o) ==
    /\ pc[p] = "idle"
    /\ ncalls < MaxCalls
    /\ ncalls' = ncalls + 1
    /\ op' = [op EXCEPT ![p] = o]
    /\ pc' = [pc EXCEPT ![p] = IF o.kind = "read" THEN "r_exists" ELSE "u_realpath"]
    /\ retries' = [retries EXCEPT ![p] = 0]
    /\ res' = [res EXCEPT ![p] = NoRes]
    /\ saw' = [saw EXCEPT ![p] = "none"]
    /\ pre' = [pre EXCEPT ![p] = cfg]
    /\ UNCHANGED <<cfg, tmp, lock, now, cur, fd, release, wctx, init0,
                       prev, stale, h>>

StartConc(p) == \E o \in ConcOps : Start(p, o)

\* lockfile.lock resolves the real path of the config file first.
LockResolve(p) ==
    /\ pc[p] = "u_realpath"
    /\ cfg.kind # "absent"
    /\ pc' = [pc EXCEPT ![p] = "u_lock"]
    /\ UNCHANGED <<cfg, tmp, lock, now, op, cur, fd, retries, release, wctx, res,
                   ncalls, init0, saw, pre, prev, stale, h>>

\* ... and rejects with ENOENT when the file does not exist: update()'s catch
\* takes its ENOENT branch.
LockEnoent(p) ==
    /\ pc[p] = "u_realpath"
    /\ cfg.kind = "absent"
    /\ pc' = [pc EXCEPT ![p] = "fb_fn"]
    /\ UNCHANGED <<cfg, tmp, lock, now, op, cur, fd, retries, release, wctx, res,
                   ncalls, init0, saw, pre, prev, stale, h>>

LockAcquire(p) ==
    /\ pc[p] = "u_lock"
    /\ lock = NoProc
    /\ lock' = p
    /\ release' = [release EXCEPT ![p] = TRUE]
    /\ pc' = [pc EXCEPT ![p] = "r_exists"]
    /\ UNCHANGED <<cfg, tmp, now, op, cur, fd, retries, wctx, res, ncalls, init0,
                   saw, pre, prev, stale, h>>

LockBusy(p) ==
    /\ pc[p] = "u_lock"
    /\ lock # NoProc
    /\ ~stale
    /\ retries[p] < lockRetries
    /\ retries' = [retries EXCEPT ![p] = @ + 1]
    /\ UNCHANGED <<cfg, tmp, lock, now, pc, op, cur, fd, release, wctx, res, ncalls,
                   init0, saw, pre, prev, stale, h>>

\* lockfile.lock starting its retries over once they are used up.
LockTimeoutStartsOver(p) ==
    /\ pc[p] = "u_lock"
    /\ lock # NoProc
    /\ ~stale
    /\ retries[p] = lockRetries
    /\ retries' = [retries EXCEPT ![p] = 0]
    /\ UNCHANGED <<cfg, tmp, lock, now, pc, op, cur, fd, release, wctx, res, ncalls,
                   init0, saw, pre, prev, stale, h>>

\* update() going on to its read without the lock once the retries are used up.
LockTimeoutProceeds(p) ==
    /\ pc[p] = "u_lock"
    /\ lock # NoProc
    /\ ~stale
    /\ retries[p] = lockRetries
    /\ pc' = [pc EXCEPT ![p] = "r_exists"]
    /\ UNCHANGED <<cfg, tmp, lock, now, op, cur, fd, retries, release, wctx, res,
                   ncalls, init0, saw, pre, prev, stale, h>>

LockTimeout(p) ==
    /\ pc[p] = "u_lock"
    /\ lock # NoProc
    /\ ~stale
    /\ retries[p] = lockRetries
    /\ Finally(p, Err("ELOCKED"))
    /\ UNCHANGED <<cfg, tmp, lock, now, op, cur, fd, retries, release, wctx, ncalls,
                   init0, saw, pre, prev, stale, h>>

\* read(): fs.pathExists; when the file is missing, write(createDefaultConfig()).
ReadExists(p) ==
    /\ pc[p] = "r_exists"
    /\ IF cfg.kind = "absent"
       THEN WriteBegin(p, createDefaultConfig(now), "boot")
       ELSE /\ pc' = [pc EXCEPT ![p] = "r_file"]
            /\ UNCHANGED <<cur, wctx, res>>
    /\ UNCHANGED <<cfg, tmp, lock, now, op, fd, retries, release, ncalls, init0,
                   saw, pre, prev, stale, h>>

\* read() answering a schema violation with a default it does not persist.
ReadFileNoRepair(p) ==
    /\ pc[p] = "r_file"
    /\ saw' = [saw EXCEPT ![p] = ParseOutcome(cfg)]
    /\ CASE ParseOutcome(cfg) = "valid" -> ReadReturns(p, migrate(cfg.doc))
         [] ParseOutcome(cfg) = "zod" -> ReadReturns(p, createDefaultConfig(now))
         [] OTHER -> Throws(p, "ReadFailed") /\ cur' = cur
    /\ UNCHANGED <<cfg, tmp, lock, now, op, fd, retries, release, wctx, ncalls,
                   init0, pre, prev, stale, h>>

\* read() persisting the migrated document before it returns it.
ReadFileRewrite(p) ==
    /\ pc[p] = "r_file"
    /\ saw' = [saw EXCEPT ![p] = ParseOutcome(cfg)]
    /\ CASE ParseOutcome(cfg) = "valid" ->
              WriteBegin(p, migrate(cfg.doc), "boot")
         [] ParseOutcome(cfg) = "zod" ->
              WriteBegin(p, createDefaultConfig(now), "repair")
         [] OTHER ->
              /\ Throws(p, "ReadFailed")
              /\ UNCHANGED <<cur, wctx>>
    /\ UNCHANGED <<cfg, tmp, lock, now, op, fd, retries, release, ncalls, init0, pre,
                   prev, stale, h>>

\* read() that writes the migrated document back when the stored version is
\* not the current one.
ReadFilePersistMigration(p) ==
    /\ pc[p] = "r_file"
    /\ saw' = [saw EXCEPT ![p] = ParseOutcome(cfg)]
    /\ CASE ParseOutcome(cfg) = "valid" /\ cfg.doc.version # CONFIG_VERSION ->
              WriteBegin(p, migrate(cfg.doc), "boot")
         [] ParseOutcome(cfg) = "valid" /\ cfg.doc.version = CONFIG_VERSION ->
              /\ ReadReturns(p, migrate(cfg.doc))
              /\ wctx' = wctx
         [] ParseOutcome(cfg) = "zod" ->
              WriteBegin(p, createDefaultConfig(now), "repair")
         [] OTHER ->
              /\ Throws(p, "ReadFailed")
              /\ UNCHANGED <<cur, wctx>>
    /\ UNCHANGED <<cfg, tmp, lock, now, op, fd, retries, release, ncalls, init0, pre,
                   prev, stale, h>>

\* read(): readFile, JSON.parse, ToyboxConfigSchema.parse, migrate.
ReadFile(p) ==
    /\ pc[p] = "r_file"
    /\ saw' = [saw EXCEPT ![p] = ParseOutcome(cfg)]
    /\ CASE ParseOutcome(cfg) = "valid" ->
              /\ ReadReturns(p, migrate(cfg.doc))
              /\ wctx' = wctx
         [] ParseOutcome(cfg) = "zod" ->
              WriteBegin(p, createDefaultConfig(now), "repair")
         [] OTHER ->
              /\ Throws(p, "ReadFailed")
              /\ UNCHANGED <<cur, wctx>>
    /\ UNCHANGED <<cfg, tmp, lock, now, op, fd, retries, release, ncalls, init0, pre,
                   prev, stale, h>>

\* update(): updater(currentConfig), then write(updatedConfig). An error of
\* the updater is caught by update()'s catch block like any other: when it
\* carries code 'ENOENT' the block takes its ENOENT branch.
Updater(p) ==
    /\ pc[p] = "u_fn"
    /\ LET r == ApplyUpdater(op[p], cur[p], now)
       IN IF r.ok
          THEN WriteBegin(p, r.config, "update")
          ELSE IF r.err = "ENOENT"
               THEN /\ pc' = [pc EXCEPT ![p] = "fb_fn"]
                    /\ UNCHANGED <<cur, wctx, res>>
               ELSE /\ Finally(p, Err(r.err))
                    /\ UNCHANGED <<cur, wctx>>
    /\ UNCHANGED <<cfg, tmp, lock, now, op, fd, retries, release, ncalls, init0,
                   saw, pre, prev, stale, h>>

\* update() without its ENOENT branch: the lock's rejection is rethrown.
FallbackRethrows(p) ==
    /\ pc[p] = "fb_fn"
    /\ Finally(p, Err("ENOENT"))
    /\ UNCHANGED <<cfg, tmp, lock, now, op, cur, wctx, fd, retries, release, ncalls,
                   init0, saw, pre, prev, stale, h>>

\* update()'s ENOENT branch: updater(createDefaultConfig()), then write.
Fallback(p) ==
    /\ pc[p] = "fb_fn"
    /\ LET r == ApplyUpdater(op[p], createDefaultConfig(now), now)
       IN IF r.ok
          THEN WriteBegin(p, r.config, "fallback")
          ELSE /\ Finally(p, Err(r.err))
               /\ UNCHANGED <<cur, wctx>>
    /\ UNCHANGED <<cfg, tmp, lock, now, op, fd, retries, release, ncalls, init0,
                   saw, pre, prev, stale, h>>


\* write() resolves: its caller continues.
WriteReturns(p) ==
    CASE wctx[p] \in {"boot", "repair"} -> ReadReturns(p, cur[p])
      [] wctx[p] = "direct" -> Settle(p, Ok(cur[p])) /\ cur' = cur
      [] OTHER -> Finally(p, Ok(cur[p])) /\ cur' = cur

\* writeFile(tempPath, ...): open with O_CREAT | O_TRUNC.
WriteOpen(p) ==
    /\ pc[p] = "w_open"
    /\ tmp' = Empty
    /\ fd' = [fd EXCEPT ![p] = "tmp"]
    /\ pc' = [pc EXCEPT ![p] = "w_data"]
    /\ UNCHANGED <<cfg, lock, now, op, cur, retries, release, wctx, res, ncalls,
                   init0, saw, pre, prev, stale, h>>

\* writeFile(tempPath, ...): write the serialized document through the open
\* descriptor, wherever the opened file is linked by now, and close.
WriteData(p) ==
    /\ pc[p] = "w_data"
    /\ tmp' = IF fd[p] = "tmp" THEN Overlay(tmp, Json(cur[p])) ELSE tmp
    /\ cfg' = IF fd[p] = "cfg" THEN Overlay(cfg, Json(cur[p])) ELSE cfg
    /\ fd' = [fd EXCEPT ![p] = "none"]
    /\ pc' = [pc EXCEPT ![p] = "w_rename"]
    /\ UNCHANGED <<lock, now, op, cur, retries, release, wctx, res, ncalls, init0,
                   saw, pre, prev, stale, h>>

\* write() copying the temp file over the config path instead of renaming it.
WriteRenameCopy(p) ==
    /\ pc[p] = "w_rename"
    /\ tmp.kind # "absent"
    /\ cfg' = tmp
    /\ fd' = [q \in Procs |-> IF fd[q] = "cfg" THEN "orphan" ELSE fd[q]]
    /\ WriteReturns(p)
    /\ UNCHANGED <<tmp, lock, now, op, retries, release, wctx, ncalls, init0, saw, pre,
                   prev, stale, h>>

\* rename(tempPath, configPath).
WriteRename(p) ==
    /\ pc[p] = "w_rename"
    /\ tmp.kind # "absent"
    /\ cfg' = tmp
    /\ tmp' = Absent
    /\ fd' = [q \in Procs |-> CASE fd[q] = "tmp" -> "cfg"
                                [] fd[q] = "cfg" -> "orphan"
                                [] OTHER -> fd[q]]
    /\ WriteReturns(p)
    /\ UNCHANGED <<lock, now, op, retries, release, wctx, ncalls, init0, saw, pre,
                   prev, stale, h>>

\* rename(tempPath, configPath) rejects: the temp file is gone.
WriteRenameFail(p) ==
    /\ pc[p] = "w_rename"
    /\ tmp.kind = "absent"
    /\ pc' = [pc EXCEPT ![p] = "w_cleanup"]
    /\ UNCHANGED <<cfg, tmp, lock, now, op, cur, fd, retries, release, wctx, res,
                   ncalls, init0, saw, pre, prev, stale, h>>

\* write() called directly: its synchronous head.
WriteCall(p) ==
    /\ pc[p] = "w_begin"
    /\ WriteBegin(p, op[p].config, "direct")
    /\ UNCHANGED <<cfg, tmp, lock, now, op, fd, retries, release, ncalls, init0,
                   saw, pre, prev, stale, h>>

\* fs.ensureDir or the open of writeFile rejects (EACCES, EMFILE, ...).
WriteOpenRejects(p) ==
    /\ pc[p] = "w_open"
    /\ pc' = [pc EXCEPT ![p] = "w_cleanup"]
    /\ UNCHANGED <<cfg, tmp, lock, now, op, cur, fd, retries, release, wctx, res,
                   ncalls, init0, saw, pre, prev, stale, h>>

\* writeFile rejects after the open (ENOSPC, EIO, ...): nothing or a part of
\* the document has reached the temp file.
WriteDataRejects(p) ==
    /\ pc[p] = "w_data"
    /\ \E part \in {Empty, Garbage(1)} :
          /\ tmp' = IF fd[p] = "tmp" THEN Overlay(tmp, part) ELSE tmp
          /\ cfg' = IF fd[p] = "cfg" THEN Overlay(cfg, part) ELSE cfg
    /\ fd' = [fd EXCEPT ![p] = "none"]
    /\ pc' = [pc EXCEPT ![p] = "w_cleanup"]
    /\ UNCHANGED <<lock, now, op, cur, retries, release, wctx, res, ncalls, init0,
                   saw, pre, prev, stale, h>>

\* rename rejects although the temp file is there (EPERM, EBUSY, EXDEV, ...).
WriteRenameRejects(p) ==
    /\ pc[p] = "w_rename"
    /\ tmp.kind # "absent"
    /\ pc' = [pc EXCEPT ![p] = "w_cleanup"]
    /\ UNCHANGED <<cfg, tmp, lock, now, op, cur, fd, retries, release, wctx, res,
                   ncalls, init0, saw, pre, prev, stale, h>>

\* write()'s catch that throws without removing the temp file.
WriteCleanupKeep(p) ==
    /\ pc[p] = "w_cleanup"
    /\ Throws(p, "WriteFailed")
    /\ UNCHANGED <<cfg, tmp, fd, lock, now, op, cur, retries, release, wctx, ncalls,
                   init0, saw, pre, prev, stale, h>>

\* write()'s catch: fs.remove(tempPath), then throw.
WriteCleanup(p) ==
    /\ pc[p] = "w_cleanup"
    /\ tmp' = Absent
    /\ fd' = [q \in Procs |-> IF fd[q] = "tmp" THEN "orphan" ELSE fd[q]]
    /\ Throws(p, "WriteFailed")
    /\ UNCHANGED <<cfg, lock, now, op, cur, retries, release, wctx, ncalls, init0,
                   saw, pre, prev, stale, h>>

\* update()'s finally: await release().
Release(p) ==
    /\ pc[p] = "u_release"
    /\ lock' = IF lock = p THEN NoProc ELSE lock
    /\ release' = [release EXCEPT ![p] = FALSE]
    /\ pc' = [pc EXCEPT ![p] = "idle"]
    /\ UNCHANGED <<cfg, tmp, now, op, cur, fd, retries, wctx, res, ncalls, init0,
                   saw, pre, prev, stale, h>>

\* Time passes.
Tick ==
    /\ now < MaxClock
    /\ now' = now + 1
    /\ UNCHANGED <<cfg, tmp, lock, pc, op, cur, fd, retries, release, wctx, res,
                   ncalls, init0, saw, pre, prev, stale, h>>

\* ----------------------------------------------------------- handlers
\* A handler awaits a ConfigService call.
Issue(p, o) ==
    /\ op' = [op EXCEPT ![p] = o]
    /\ pc' = [pc EXCEPT ![p] = IF o.kind \in UpdateKinds THEN "u_realpath" ELSE "r_exists"]
    /\ retries' = [retries EXCEPT ![p] = 0]
    /\ res' = [res EXCEPT ![p] = NoRes]
    /\ saw' = [saw EXCEPT ![p] = "none"]
    /\ pre' = [pre EXCEPT ![p] = cfg]
    /\ wctx' = [wctx EXCEPT ![p] = "none"]
    /\ UNCHANGED <<cfg, tmp, lock, now, cur, fd, release, init0, prev, stale>>

\* A handler returns its payload to the tool caller.
Return(p, payload) ==
    /\ h' = [h EXCEPT ![p].step = "returned", ![p].out = payload]
    /\ UNCHANGED <<cfg, tmp, lock, now, pc, op, cur, fd, retries, release, wctx, res,
                   init0, saw, pre, prev, stale>>

Goto(p, step) == h' = [h EXCEPT ![p].step = step]

\* A tool call arrives: the handler makes its ConfigService and awaits its
\* first call, getRepositories() (a read()) or getActiveRepository().
HandlerStart(p) ==
    /\ pc[p] = "idle"
    /\ h[p].step \in {"idle", "returned"}
    /\ ncalls < MaxCalls
    /\ ncalls' = ncalls + 1
    /\ \E k \in HandlerKinds :
       \E n \in (IF k \in {"switch_repository", "remove_repository"}
                 THEN Names ELSE {UndefStr}) :
          /\ h' = [h EXCEPT ![p] = [kind |-> k, name |-> n, step |-> "s1",
                                    out |-> NoPayload]]
          /\ Issue(p, IF k \in {"get_active_repository"} \cup ArtifactHandlers
                      THEN GetActiveOp ELSE ReadOp)

\* A handler without its catch block: the rejection reaches the tool caller.
HandlerCatchRethrows(p) ==
    /\ h[p].step \in {"s1", "s2"}
    /\ pc[p] = "idle" /\ res[p].status = "error"
    /\ h' = [h EXCEPT ![p].step = "threw"]
    /\ UNCHANGED <<cfg, tmp, lock, now, pc, op, cur, fd, retries, release, wctx, res,
                   ncalls, init0, saw, pre, prev, stale>>

\* The awaited ConfigService call rejects: the handler's catch block returns
\* {success: false, error: 'Failed to ...: ' + message}.
HandlerCatch(p) ==
    /\ h[p].step \in {"s1", "s2"}
    /\ pc[p] = "idle" /\ res[p].status = "error"
    /\ Return(p, Caught(h[p].kind, res[p].err))
    /\ ncalls' = ncalls

\* listRepositories: getRepositories(), then read(), then the payload.
ListRepositoriesStep(p) ==
    /\ h[p].kind = "list_repositories"
    /\ pc[p] = "idle" /\ res[p].status = "ok"
    /\ ncalls' = ncalls
    /\ \/ /\ h[p].step = "s1"
          /\ Goto(p, "s2")
          /\ Issue(p, ReadOp)
       \/ /\ h[p].step = "s2"
          /\ Return(p, Success)

\* switchRepository: look the name up, check the directory, then
\* setActiveRepository(repoName).
SwitchRepositoryStep(p) ==
    /\ h[p].kind = "switch_repository"
    /\ pc[p] = "idle" /\ res[p].status = "ok"
    /\ ncalls' = ncalls
    /\ \/ /\ h[p].step = "s1"
          /\ IndexOf(res[p].value.repositories, h[p].name) = 0
          /\ Return(p, Failure(NotFound))
       \/ /\ h[p].step = "s1"
          /\ IndexOf(res[p].value.repositories, h[p].name) > 0
          /\ \E exists \in BOOLEAN :
                IF exists
                THEN Goto(p, "s2") /\ Issue(p, SetActiveOp(h[p].name))
                ELSE Return(p, Failure(PathGone))
       \/ /\ h[p].step = "s2"
          /\ Return(p, Success)

\* removeRepository (handler): look the name up, then
\* configService.removeRepository(repoName).
RemoveRepositoryStep(p) ==
    /\ h[p].kind = "remove_repository"
    /\ pc[p] = "idle" /\ res[p].status = "ok"
    /\ ncalls' = ncalls
    /\ \/ /\ h[p].step = "s1"
          /\ IF IndexOf(res[p].value.repositories, h[p].name) = 0
             THEN Return(p, Failure(NotFound))
             ELSE Goto(p, "s2") /\ Issue(p, RemoveOp(h[p].name))
       \/ /\ h[p].step = "s2"
          /\ Return(p, Success)

\* getActiveRepository (handler): null becomes a failure payload.
GetActiveRepositoryStep(p) ==
    /\ h[p].kind = "get_active_repository"
    /\ h[p].step = "s1"
    /\ pc[p] = "idle" /\ res[p].status = "ok"
    /\ ncalls' = ncalls
    /\ Return(p, IF res[p].found = << >> THEN Failure(NoActiveSwitch) ELSE Success)

\* publishArtifact and listArtifacts: null becomes a failure payload;
\* otherwise touchRepository(activeRepo.name), then the git and artifact
\* steps, whose errors the same catch block turns into a payload.
ArtifactStep(p) ==
    /\ h[p].kind \in ArtifactHandlers
    /\ pc[p] = "idle" /\ res[p].status = "ok"
    /\ ncalls' = ncalls
    /\ \/ /\ h[p].step = "s1"
          /\ IF res[p].found = << >>
             THEN Return(p, Failure(NoActiveInit))
             ELSE Goto(p, "s2") /\ Issue(p, TouchOp(res[p].found[1].name))
       \/ /\ h[p].step = "s2"
          /\ \E e \in {"", "artifact"} :
                Return(p, IF e = "" THEN Success ELSE Caught(h[p].kind, e))

\* ------------------------------------------------------ specifications
\* Two callers whose calls overlap.
Next ==
    \E p \in Procs :
        \/ StartConc(p)
        \/ LockResolve(p)
        \/ LockEnoent(p)
        \/ LockAcquire(p)
        \/ LockBusy(p)
        \/ LockTimeout(p)
        \/ ReadExists(p)
        \/ ReadFile(p)
        \/ Updater(p)
        \/ Fallback(p)
        \/ WriteOpen(p)
        \/ WriteData(p)
        \/ WriteRename(p)
        \/ WriteRenameFail(p)
        \/ WriteCleanup(p)
        \/ Release(p)

Spec == Init /\ [][Next]_vars

\* One caller issuing one call after the other, each awaited before the next.
StartOne(p) ==
    /\ ncalls' = 0
    /\ \E o \in SeqOps :
        /\ pc[p] = "idle"
        /\ op' = [op EXCEPT ![p] = o]
        /\ pc' = [pc EXCEPT ![p] = IF o.kind = "read" THEN "r_exists" ELSE "u_realpath"]
        /\ retries' = [retries EXCEPT ![p] = 0]
        /\ res' = [res EXCEPT ![p] = NoRes]
        /\ saw' = [saw EXCEPT ![p] = "none"]
        /\ pre' = [pre EXCEPT ![p] = cfg]
        /\ UNCHANGED <<cfg, tmp, lock, now, cur, fd, release, wctx, init0,
                       prev, stale, h>>

NextSeq ==
    \/ Tick
    \/ StartOne("p1")
    \/ LockResolve("p1")
    \/ LockEnoent("p1")
    \/ LockAcquire("p1")
    \/ ReadExists("p1")
    \/ ReadFile("p1")
    \/ Updater("p1")
    \/ Fallback("p1")
    \/ WriteOpen("p1")
    \/ WriteData("p1")
    \/ WriteRename("p1")
    \/ Release("p1")

SpecSeq == Init /\ [][NextSeq]_vars

\* One caller issuing registry calls one after the other, starting without a
\* config file.
StartReg(p) ==
    /\ pc[p] = "idle"
    /\ ncalls' = 0
    /\ \E o \in RegOps :
          /\ o.kind = "upsertRepository" =>
                \/ o.name \in RegistryNames(cfg)
                \/ Len(Registry(cfg)) < MaxRepos
          /\ op' = [op EXCEPT ![p] = o]
    /\ pc' = [pc EXCEPT ![p] = "u_realpath"]
    /\ retries' = [retries EXCEPT ![p] = 0]
    /\ res' = [res EXCEPT ![p] = NoRes]
    /\ saw' = [saw EXCEPT ![p] = "none"]
    /\ pre' = [pre EXCEPT ![p] = cfg]
    /\ UNCHANGED <<cfg, tmp, lock, now, cur, fd, release, wctx, init0, prev, stale, h>>

\* One caller issuing update(fn) calls with functions of its own.
StartFn(p) ==
    /\ pc[p] = "idle"
    /\ ncalls' = 0
    /\ \E f \in Fns : op' = [op EXCEPT ![p] = UpdateFnOp(f)]
    /\ pc' = [pc EXCEPT ![p] = "u_realpath"]
    /\ retries' = [retries EXCEPT ![p] = 0]
    /\ res' = [res EXCEPT ![p] = NoRes]
    /\ saw' = [saw EXCEPT ![p] = "none"]
    /\ pre' = [pre EXCEPT ![p] = cfg]
    /\ UNCHANGED <<cfg, tmp, lock, now, cur, fd, release, wctx, init0, prev, stale, h>>

NextFn ==
    \/ Tick
    \/ StartFn("p1")
    \/ LockResolve("p1")
    \/ LockEnoent("p1")
    \/ LockAcquire("p1")
    \/ ReadExists("p1")
    \/ ReadFile("p1")
    \/ Updater("p1")
    \/ Fallback("p1")
    \/ WriteOpen("p1")
    \/ WriteData("p1")
    \/ WriteRename("p1")
    \/ Release("p1")

\* No file, an empty registry, a registry with one repository.
FnContents ==
    { Absent,
      Json(createDefaultConfig(0)),
      Json([createDefaultConfig(0) EXCEPT
              !.repositories = <<SampleRepo("alpha", TRUE)>>,
              !.activeRepository = "alpha"]) }

SpecFn == InitFrom(FnContents) /\ [][NextFn]_vars

NextReg ==
    \/ Tick
    \/ StartReg("p1")
    \/ LockResolve("p1")
    \/ LockEnoent("p1")
    \/ LockAcquire("p1")
    \/ ReadExists("p1")
    \/ ReadFile("p1")
    \/ Updater("p1")
    \/ Fallback("p1")
    \/ WriteOpen("p1")
    \/ WriteData("p1")
    \/ WriteRename("p1")
    \/ Release("p1")

SpecReg == InitFrom({Absent}) /\ [][NextReg]_vars

\* One caller issuing read() and write(config) calls one after the other, on
\* a file system whose operations may fail.
StartRW(p) ==
    /\ pc[p] = "idle"
    /\ ncalls' = 0
    /\ \E o \in RWOps(now) :
        /\ op' = [op EXCEPT ![p] = o]
        /\ pc' = [pc EXCEPT ![p] = IF o.kind = "read" THEN "r_exists" ELSE "w_begin"]
        /\ prev' = [prev EXCEPT ![p] =
                       IF o.kind = "read"
                       THEN [op |-> op[p], boot |-> pre[p] = Absent, res |-> res[p]]
                       ELSE NoPrev]
    /\ retries' = [retries EXCEPT ![p] = 0]
    /\ res' = [res EXCEPT ![p] = NoRes]
    /\ saw' = [saw EXCEPT ![p] = "none"]
    /\ pre' = [pre EXCEPT ![p] = cfg]
    /\ UNCHANGED <<cfg, tmp, lock, now, cur, fd, release, wctx, init0, stale, h>>

NextRW ==
    \/ Tick
    \/ StartRW("p1")
    \/ WriteCall("p1")
    \/ ReadExists("p1")
    \/ ReadFile("p1")
    \/ WriteOpen("p1")
    \/ WriteOpenRejects("p1")
    \/ WriteData("p1")
    \/ WriteDataRejects("p1")
    \/ WriteRename("p1")
    \/ WriteRenameRejects("p1")
    \/ WriteCleanup("p1")

\* Two processes issuing upsertRepository calls on an existing config file;
\* the first may die while it holds the lock.
CrashOps == {UpsertOp(r) : r \in RepoArgs({0}, {UndefStr}, {TRUE})}

StartCrash(p) ==
    /\ pc[p] = "idle"
    /\ ncalls' = 0
    /\ \E o \in CrashOps : op' = [op EXCEPT ![p] = o]
    /\ pc' = [pc EXCEPT ![p] = "u_realpath"]
    /\ retries' = [retries EXCEPT ![p] = 0]
    /\ res' = [res EXCEPT ![p] = NoRes]
    /\ saw' = [saw EXCEPT ![p] = "none"]
    /\ pre' = [pre EXCEPT ![p] = cfg]
    /\ UNCHANGED <<cfg, tmp, lock, now, cur, fd, release, wctx, init0, prev, stale, h>>

\* The process of caller p dies inside update() with the lock held: none of
\* its continuations runs again, its finally block included.
Crash(p) ==
    /\ lock = p
    /\ release[p]
    /\ pc[p] \notin {"idle", "crashed"}
    /\ pc' = [pc EXCEPT ![p] = "crashed"]
    /\ UNCHANGED <<cfg, tmp, lock, now, op, cur, fd, retries, release, wctx, res,
                   ncalls, init0, saw, pre, prev, stale, h>>

\* Nobody refreshes the marker of a dead holder: lockStale ms after its last
\* refresh the marker is stale.
LockExpires ==
    /\ lock # NoProc
    /\ pc[lock] = "crashed"
    /\ ~stale
    /\ stale' = TRUE
    /\ UNCHANGED <<cfg, tmp, lock, now, pc, op, cur, fd, retries, release, wctx, res,
                   ncalls, init0, saw, pre, prev, h>>

\* lockfile.lock counting a stale marker as a held lock.
LockReclaimWaits(p) ==
    /\ pc[p] = "u_lock"
    /\ lock # NoProc
    /\ stale
    /\ retries[p] < lockRetries
    /\ retries' = [retries EXCEPT ![p] = @ + 1]
    /\ UNCHANGED <<cfg, tmp, lock, now, pc, op, cur, fd, release, wctx, res, ncalls,
                   init0, saw, pre, prev, stale, h>>

\* lockfile.lock finds the marker stale (option stale: lockStale), removes it
\* and takes the lock.
LockReclaim(p) ==
    /\ pc[p] = "u_lock"
    /\ lock # NoProc
    /\ stale
    /\ lock' = p
    /\ stale' = FALSE
    /\ release' = [release EXCEPT ![p] = TRUE]
    /\ pc' = [pc EXCEPT ![p] = "r_exists"]
    /\ UNCHANGED <<cfg, tmp, now, op, cur, fd, retries, wctx, res, ncalls, init0,
                   saw, pre, prev, h>>

\* The steps of caller p.
StepsCrash(p) ==
    \/ StartCrash(p)
    \/ LockResolve(p)
    \/ LockAcquire(p)
    \/ LockBusy(p)
    \/ LockTimeout(p)
    \/ LockReclaim(p)
    \/ ReadExists(p)
    \/ ReadFile(p)
    \/ Updater(p)
    \/ WriteOpen(p)
    \/ WriteData(p)
    \/ WriteRename(p)
    \/ Release(p)

NextCrash ==
    \/ Crash("p1")
    \/ LockExpires
    \/ \E p \in Procs : StepsCrash(p)

\* The event loop of the surviving process runs every continuation that is
\* ready, its caller keeps issuing update() calls, and time passes.
SpecCrash ==
    /\ InitFrom({Json(createDefaultConfig(0))})
    /\ [][NextCrash]_vars
    /\ WF_vars(StepsCrash("p2"))
    /\ WF_vars(LockExpires)

\* Two processes issuing upsertRepository calls, with or without a config
\* file at the start. The first issues one call and may stop at any point or
\* die holding the lock, and its marker may or may not go stale; the second
\* keeps issuing calls and its event loop runs every continuation that is
\* ready.
StartTerm(p) ==
    /\ pc[p] = "idle"
    /\ p = "p1" => res[p].status = "none"
    /\ op' = [op EXCEPT ![p] =
                 UpsertOp(SampleRepo(IF p = "p1" THEN "alpha" ELSE "beta", TRUE))]
    /\ pc' = [pc EXCEPT ![p] = "u_realpath"]
    /\ retries' = [retries EXCEPT ![p] = 0]
    /\ res' = [res EXCEPT ![p] = NoRes]
    /\ saw' = [saw EXCEPT ![p] = "none"]
    /\ pre' = [pre EXCEPT ![p] = cfg]
    /\ UNCHANGED <<cfg, tmp, lock, now, cur, fd, release, wctx, ncalls, init0, prev, stale, h>>

StepsTerm(p) ==
    \/ StartTerm(p)
    \/ LockResolve(p)
    \/ LockEnoent(p)
    \/ LockAcquire(p)
    \/ LockBusy(p)
    \/ LockTimeout(p)
    \/ LockReclaim(p)
    \/ ReadExists(p)
    \/ ReadFile(p)
    \/ Updater(p)
    \/ Fallback(p)
    \/ WriteOpen(p)
    \/ WriteData(p)
    \/ WriteRename(p)
    \/ WriteRenameFail(p)
    \/ WriteCleanup(p)
    \/ Release(p)

NextTerm ==
    \/ Crash("p1")
    \/ LockExpires
    \/ \E p \in Procs : StepsTerm(p)

SpecTerm ==
    /\ InitFrom({Absent, Json(createDefaultConfig(0))})
    /\ [][NextTerm]_vars
    /\ WF_vars(StepsTerm("p2"))

\* One caller issuing getActiveRepository() calls on a config file that holds
\* any of the documents below, or is missing.
GetRecords == {SampleRepo(n, act) : n \in {"alpha", EmptyStr}, act \in BOOLEAN}

\* Registries of up to two records with distinct names, and every value of
\* the pointer: undefined, the empty string, a registered name, an unknown one.
GetDocs ==
    {[createDefaultConfig(0) EXCEPT !.repositories = rs, !.activeRepository = a] :
        rs \in {<< >>} \cup {<<r>> : r \in GetRecords}
                \cup {<<r1, r2>> : <<r1, r2>> \in
                         {x \in GetRecords \X GetRecords : x[1].name # x[2].name}},
        a \in {UndefStr, EmptyStr, "alpha", "beta"}}

StartGet(p) ==
    /\ pc[p] = "idle"
    /\ ncalls' = 0
    /\ op' = [op EXCEPT ![p] = GetActiveOp]
    /\ pc' = [pc EXCEPT ![p] = "r_exists"]
    /\ retries' = [retries EXCEPT ![p] = 0]
    /\ res' = [res EXCEPT ![p] = NoRes]
    /\ saw' = [saw EXCEPT ![p] = "none"]
    /\ pre' = [pre EXCEPT ![p] = cfg]
    /\ UNCHANGED <<cfg, tmp, lock, now, cur, fd, release, wctx, init0, prev, stale, h>>

NextGet ==
    \/ StartGet("p1")
    \/ ReadExists("p1")
    \/ ReadFile("p1")
    \/ WriteOpen("p1")
    \/ WriteData("p1")
    \/ WriteRename("p1")

SpecGet == InitFrom({Absent} \cup {Json(d) : d \in GetDocs}) /\ [][NextGet]_vars

\* No file, a valid document of an old version, a document the schema rejects.
RWContents ==
    { Absent,
      Json([createDefaultConfig(0) EXCEPT !.version = OldVersion]),
      Json([createDefaultConfig(0) EXCEPT
              !.repositories = <<SampleRepo(UndefStr, FALSE)>>]) }

SpecRW == InitFrom(RWContents) /\ [][NextRW]_vars


\* A tool handler on caller p1 while caller p2 issues one removeRepository
\* call of its own; open() may reject in write().
StartOther(p) ==
    /\ pc[p] = "idle"
    /\ res[p].status = "none"
    /\ \E n \in Names : Issue(p, RemoveOp(n))
    /\ UNCHANGED <<ncalls, h>>

StepsH(p) ==
    \/ LockResolve(p)
    \/ LockEnoent(p)
    \/ LockAcquire(p)
    \/ LockBusy(p)
    \/ LockTimeout(p)
    \/ ReadExists(p)
    \/ ReadFile(p)
    \/ Updater(p)
    \/ Fallback(p)
    \/ WriteOpen(p)
    \/ WriteData(p)
    \/ WriteRename(p)
    \/ Release(p)

NextH ==
    \/ HandlerStart("p1")
    \/ HandlerCatch("p1")
    \/ ListRepositoriesStep("p1")
    \/ SwitchRepositoryStep("p1")
    \/ RemoveRepositoryStep("p1")
    \/ GetActiveRepositoryStep("p1")
    \/ ArtifactStep("p1")
    \/ StartOther("p2")
    \/ StepsH("p1")
    \/ StepsH("p2")
    \/ WriteOpenRejects("p1")
    \/ WriteCleanup("p1")

\* No file, an unparseable file, an empty registry, a registry of two
\* repositories with the first one active.
HContents ==
    { Absent,
      Garbage(1),
      Json(createDefaultConfig(0)),
      Json([createDefaultConfig(0) EXCEPT
              !.repositories = <<SampleRepo("alpha", TRUE), SampleRepo("beta", FALSE)>>,
              !.activeRepository = "alpha"]) }

SpecH == InitFrom(HContents) /\ [][NextH]_vars

\* initializeToybox from its registry step on: the steps before it (the
\* authentication check, the clone, the Pages setup) touch no config file.
\* The handler awaits upsertRepository({name: repoName, ..., createdAt and
\* lastUsedAt: new Date().toISOString(), isActive: true}).
InitializeToyboxStart(p) ==
    /\ pc[p] = "idle"
    /\ h[p].step \in {"idle", "returned"}
    /\ ncalls < MaxCalls
    /\ ncalls' = ncalls + 1
    /\ \E n \in Names :
          /\ h' = [h EXCEPT ![p] = [kind |-> "initialize_toybox", name |-> n,
                                    step |-> "s1", out |-> NoPayload]]
          /\ Issue(p, UpsertOp([SampleRepo(n, TRUE) EXCEPT
                                  !.createdAt = now, !.lastUsedAt = now]))

\* The registry step without its second call: success is returned as soon
\* as upsertRepository resolves.
InitializeToyboxStepUpsertOnly(p) ==
    /\ h[p].kind = "initialize_toybox"
    /\ pc[p] = "idle" /\ res[p].status = "ok"
    /\ ncalls' = ncalls
    /\ h[p].step = "s1"
    /\ Return(p, Success)

\* upsertRepository resolved: the handler awaits
\* setActiveRepository(repoName); that resolved: it returns
\* {success: true, repository, message}.
InitializeToyboxStep(p) ==
    /\ h[p].kind = "initialize_toybox"
    /\ pc[p] = "idle" /\ res[p].status = "ok"
    /\ ncalls' = ncalls
    /\ \/ /\ h[p].step = "s1"
          /\ Goto(p, "s2")
          /\ Issue(p, SetActiveOp(h[p].name))
       \/ /\ h[p].step = "s2"
          /\ Return(p, Success)

\* One tool caller running initializeToybox calls one after the other (the
\* lock is always free when it asks for it); the clock advances between
\* steps and a temp file may fail to open.
NextInit ==
    \/ Tick
    \/ InitializeToyboxStart("p1")
    \/ InitializeToyboxStep("p1")
    \/ HandlerCatch("p1")
    \/ LockResolve("p1")
    \/ LockEnoent("p1")
    \/ LockAcquire("p1")
    \/ ReadExists("p1")
    \/ ReadFile("p1")
    \/ Updater("p1")
    \/ Fallback("p1")
    \/ WriteOpen("p1")
    \/ WriteData("p1")
    \/ WriteRename("p1")
    \/ Release("p1")
    \/ WriteOpenRejects("p1")
    \/ WriteCleanup("p1")

\* No file, an unparseable file, an empty registry, one repository active,
\* two repositories with the first or the second one active.
InitToyboxContents ==
    { Absent,
      Garbage(1),
      Json(createDefaultConfig(0)),
      Json([createDefaultConfig(0) EXCEPT
              !.repositories = <<SampleRepo("alpha", TRUE)>>,
              !.activeRepository = "alpha"]),
      Json([createDefaultConfig(0) EXCEPT
              !.repositories = <<SampleRepo("alpha", TRUE), SampleRepo("beta", FALSE)>>,
              !.activeRepository = "alpha"]),
      Json([createDefaultConfig(0) EXCEPT
              !.repositories = <<SampleRepo("alpha", FALSE), SampleRepo("beta", TRUE)>>,
              !.activeRepository = "beta"]) }

SpecInit == InitFrom(InitToyboxContents) /\ [][NextInit]_vars

\* ------------------------------------------------------- observations
\* The config path holds no file, or a schema-valid document.
Sound(content) == content.kind = "absent" \/ ParseOutcome(content) = "valid"

Idle(p) == pc[p] = "idle"
Done(p) == pc[p] = "idle" /\ res[p].status # "none"
IsUpdate(p) == op[p].kind \in UpdateKinds

\* Caller p is executing update() between the start of its read (or, on the
\* ENOENT branch, of its updater) and the end of its write.
InSection(p) ==
    /\ IsUpdate(p)
    /\ pc[p] \in {"r_exists", "r_file", "u_fn", "fb_fn", "w_open", "w_data",
                  "w_rename", "w_cleanup"}

\* Caller p is inside the file operations of a write().
Writing(p) == pc[p] \in {"w_open", "w_data", "w_rename", "w_cleanup"}

ActiveFlags(c) == {i \in DOMAIN c.repositories : c.repositories[i].isActive}

\* --------------------------------------------------------------- claims

\* C1: two concurrent update() calls that each append one repository with a
\* distinct name, from an absent or valid config file, both succeed, and once
\* both have completed getRepositories() contains both repositories.
C1_NoLostUpdate ==
    ( /\ Sound(init0)
      /\ ncalls = 2
      /\ \A p \in Procs : Done(p) /\ op[p].kind = "upsertRepository"
      /\ op["p1"].name # op["p2"].name
      /\ op["p1"].name \notin RegistryNames(init0)
      /\ op["p2"].name \notin RegistryNames(init0) )
    => /\ \A p \in Procs : res[p].status = "ok"
       /\ {op["p1"].name, op["p2"].name} \subseteq RegistryNames(cfg)

\* C2: in every reachable state at most one update() call on the config path
\* is inside its read -> updater -> write section, so a second update() reads
\* only after the first has written and released.
C2_MutualExclusion ==
    \A p \in Procs : \A q \in Procs :
        (InSection(p) /\ InSection(q)) => p = q

\* C3: starting from an absent config file, after any sequence of
\* upsertRepository, setActiveRepository and removeRepository calls the
\* persisted document has at most one record with isActive = true, and a set
\* activeRepository names that record.
C3_AtMostOneActive ==
    (init0 = Absent /\ cfg.kind = "json") =>
        /\ Cardinality(ActiveFlags(cfg.doc)) <= 1
        /\ \A i \in ActiveFlags(cfg.doc) :
              cfg.doc.activeRepository # UndefStr =>
                 cfg.doc.repositories[i].name = cfg.doc.activeRepository

\* C4: when the config file exists but is not parseable JSON, read() does not
\* raise; it returns a default Configuration and the file then holds a valid
\* JSON document.
C4_CorruptionRecovery ==
    \A p \in Procs :
        (Done(p) /\ op[p].kind = "read" /\ saw[p] = "syntax") =>
            /\ res[p].status = "ok"
            /\ res[p].value.repositories = << >>
            /\ res[p].value.activeRepository = UndefStr
            /\ cfg.kind = "json"


\* C5: when the config file parses as JSON but fails schema validation, read()
\* never surfaces a validation error; it persists a default Configuration
\* over the broken file and returns that default.
C5_SchemaViolationRecovery ==
    \A p \in Procs :
        saw[p] = "zod" =>
            /\ res[p].err # "ZodError"
            /\ (Done(p) /\ op[p].kind = "read") =>
                  /\ res[p].status = "ok"
                  /\ res[p].value = createDefaultConfig(res[p].value.lastUpdated)
                  /\ cfg = Json(res[p].value)
            /\ (IsUpdate(p) /\ pc[p] = "u_fn") =>
                  /\ cur[p] = createDefaultConfig(cur[p].lastUpdated)
                  /\ cfg = Json(cur[p])

C5_Witness ==
    /\ Done("p1") /\ op["p1"].kind = "read" /\ saw["p1"] = "zod"
    /\ init0.kind = "json" /\ Len(init0.doc.repositories) = 1
    /\ res["p1"].status = "ok"
    /\ cfg = Json(createDefaultConfig(now)) /\ now > 0

\* C6: under any interleaving of write() and read() calls, the content found
\* at the config path is what was there at the start or one complete
\* serialized document produced by a single write().
C6_AtomicWrite ==
    cfg = init0 \/ (cfg.kind = "json" /\ ConfigValid(cfg.doc))

\* C7: whenever an update() call that acquired the lock has finished, by
\* returning, by the updater throwing, by read() failing or by write()
\* failing, the lock is no longer held by it, and with no call in progress the
\* lock is free for a later update().
C7_LockReleased ==
    /\ \A p \in Procs : Idle(p) => (lock # p /\ ~release[p])
    /\ (\A p \in Procs : Idle(p)) => lock = NoProc

\* An update() that held the lock and ended with its write() failing.
C7_Witness ==
    \E p \in Procs :
        /\ Done(p) /\ IsUpdate(p) /\ saw[p] # "none"
        /\ res[p].err = "WriteFailed"
        /\ lock = NoProc

\* C8: setActiveRepository(name) with a name that is not in the registry fails
\* with an error, and the persisted document is left exactly as it was.
C8_SetActiveUnknown ==
    \A p \in Procs :
        ( /\ Done(p) /\ op[p].kind = "setActiveRepository"
          /\ Sound(pre[p])
          /\ op[p].name \notin RegistryNames(pre[p]) )
        => /\ res[p].status = "error"
           /\ res[p].err = "NotFound"
           /\ cfg = pre[p]

C8_Witness ==
    /\ Done("p1") /\ op["p1"].kind = "setActiveRepository"
    /\ pre["p1"].kind = "json"
    /\ RegistryNames(pre["p1"]) = {"alpha"} /\ op["p1"].name = "beta"
    /\ res["p1"].err = "NotFound"
    /\ now > pre["p1"].doc.lastUpdated
    /\ cfg = pre["p1"]

\* C9: upsertRepository(r) into a registry whose list is empty (also when no
\* config file exists yet) results in activeRepository = r.name and r stored
\* with isActive = true, whatever isActive the caller passed.
C9_FirstRepoIsActive ==
    \A p \in Procs :
        ( /\ Done(p) /\ op[p].kind = "upsertRepository"
          /\ pre[p].kind \in {"absent", "json"}
          /\ Registry(pre[p]) = << >> )
        => /\ res[p].status = "ok"
           /\ cfg.kind = "json"
           /\ cfg.doc.activeRepository = op[p].name
           /\ Len(cfg.doc.repositories) = 1
           /\ cfg.doc.repositories[1].name = op[p].name
           /\ cfg.doc.repositories[1].isActive

C9_Witness ==
    /\ Done("p1") /\ op["p1"].kind = "upsertRepository"
    /\ pre["p1"] = Absent
    /\ ~op["p1"].repo.isActive
    /\ cfg.kind = "json"
    /\ cfg.doc.activeRepository = op["p1"].name
    /\ cfg.doc.repositories[1].isActive

\* The document has name n selected: the pointer names n, exactly the records
\* named n are flagged, and getActiveRepository() resolves to n.
Switched(c, n) ==
    /\ c.activeRepository = n
    /\ \A i \in DOMAIN c.repositories :
          c.repositories[i].isActive = (c.repositories[i].name = n)
    /\ getActiveRepository(c) # << >>
    /\ getActiveRepository(c)[1].name = n

\* C10: with alpha registered and active, upsertRepository of a new name
\* leaves getActiveRepository() returning alpha; setActiveRepository(beta)
\* then makes getActiveRepository() return beta, sets isActive of every record
\* to (name = beta) and sets activeRepository to beta in the same write.
C10_Switching ==
    \A p \in Procs :
        /\ ( /\ Done(p) /\ op[p].kind = "upsertRepository"
             /\ ParseOutcome(pre[p]) = "valid"
             /\ getActiveRepository(migrate(pre[p].doc)) # << >>
             /\ op[p].name \notin RegistryNames(pre[p]) )
           => /\ ParseOutcome(cfg) = "valid"
              /\ getActiveRepository(migrate(cfg.doc))
                    = getActiveRepository(migrate(pre[p].doc))
        /\ (Done(p) /\ op[p].kind = "setActiveRepository" /\ res[p].status = "ok")
           => (cfg.kind = "json" /\ Switched(cfg.doc, op[p].name))
        /\ (op[p].kind = "setActiveRepository" /\ Sound(pre[p]))
           => (cfg = pre[p] \/ (cfg.kind = "json" /\ Switched(cfg.doc, op[p].name)))

C10_Witness ==
    /\ Done("p1") /\ op["p1"].kind = "setActiveRepository" /\ op["p1"].name = "beta"
    /\ res["p1"].status = "ok"
    /\ pre["p1"].kind = "json" /\ pre["p1"].doc.activeRepository = "alpha"
    /\ Len(cfg.doc.repositories) = 2
    /\ cfg.doc.repositories[1].name = "alpha"
    /\ ~cfg.doc.repositories[1].isActive
    /\ cfg.doc.activeRepository = "beta"

\* C11: with repositories A (active) and B, removeRepository(A) leaves B
\* with isActive = true and activeRepository = B; removing the last remaining
\* repository leaves activeRepository unset and getActiveRepository()
\* returning null.
C11_RemovalPromotes ==
    \A p \in Procs :
        (Done(p) /\ op[p].kind = "removeRepository" /\ ParseOutcome(pre[p]) = "valid")
        => LET d == migrate(pre[p].doc)
               A == op[p].name
           IN /\ ( /\ Len(d.repositories) = 2
                   /\ d.repositories[1].name # d.repositories[2].name
                   /\ getActiveRepository(d) # << >>
                   /\ getActiveRepository(d)[1].name = A )
                 => LET B == IF d.repositories[1].name = A
                             THEN d.repositories[2] ELSE d.repositories[1]
                    IN /\ res[p].status = "ok"
                       /\ cfg.kind = "json"
                       /\ cfg.doc.repositories = <<[B EXCEPT !.isActive = TRUE]>>
                       /\ cfg.doc.activeRepository = B.name
              /\ (Len(d.repositories) = 1 /\ d.repositories[1].name = A)
                 => /\ res[p].status = "ok"
                    /\ cfg.kind = "json"
                    /\ cfg.doc.repositories = << >>
                    /\ cfg.doc.activeRepository = UndefStr
                    /\ getActiveRepository(cfg.doc) = << >>

\* alpha (active) is removed and beta, inactive until then, is promoted.
C11_Witness ==
    /\ Done("p1") /\ op["p1"] = RemoveOp("alpha")
    /\ init0 = Absent
    /\ pre["p1"].kind = "json"
    /\ Len(pre["p1"].doc.repositories) = 2
    /\ pre["p1"].doc.activeRepository = "alpha"
    /\ \E i \in 1..2 : /\ pre["p1"].doc.repositories[i].name = "beta"
                        /\ ~pre["p1"].doc.repositories[i].isActive
    /\ cfg.kind = "json"
    /\ Len(cfg.doc.repositories) = 1
    /\ cfg.doc.repositories[1].name = "beta"
    /\ cfg.doc.repositories[1].isActive
    /\ cfg.doc.activeRepository = "beta"

\* C12: with no config file present, two consecutive read() calls return
\* Configurations with identical (empty) repositories and identical
\* preferences, the file exists after the first call, and the second call does
\* not write the file again.
C12_IdempotentBootstrap ==
    \A p \in Procs :
        ( /\ op[p].kind = "read" /\ prev[p].op.kind = "read"
          /\ prev[p].boot /\ prev[p].res.status = "ok" )
        => /\ pre[p].kind = "json"
           /\ ~Writing(p)
           /\ cfg = pre[p] /\ tmp = Absent
           /\ Done(p) =>
                 /\ res[p].status = "ok"
                 /\ res[p].value.repositories = << >>
                 /\ res[p].value.repositories = prev[p].res.value.repositories
                 /\ res[p].value.preferences = prev[p].res.value.preferences

\* The second read() returns after the clock has advanced past the bootstrap.
C12_Witness ==
    /\ Done("p1") /\ op["p1"].kind = "read" /\ prev["p1"].op.kind = "read"
    /\ prev["p1"].boot /\ prev["p1"].res.status = "ok"
    /\ res["p1"].status = "ok"
    /\ cfg.kind = "json" /\ now > cfg.doc.lastUpdated

\* The read() of caller p follows a successful write(C) with C schema-valid.
AfterWrite(p) ==
    /\ Done(p) /\ op[p].kind = "read"
    /\ prev[p].op.kind = "write" /\ prev[p].res.status = "ok"
    /\ ConfigValid(prev[p].op.config)

Refused(p) ==
    /\ pc[p] \in {"w_begin", "idle"}
    /\ cfg = pre[p]
    /\ tmp = Absent
    /\ Done(p) => (res[p].status = "error" /\ res[p].err = "ZodError")

C16_NoArtifacts ==
    ( /\ \A p \in Procs : Idle(p)
      /\ \E p \in Procs : Done(p) /\ res[p].status = "ok" )
    => (tmp = Absent /\ lock = NoProc)

\* Two overlapping calls have both succeeded, one of them an update() that
\* took the lock and replaced the document.
C16_Witness ==
    /\ ncalls = 2
    /\ \A p \in Procs : Done(p) /\ res[p].status = "ok"
    /\ \E p \in Procs : IsUpdate(p) /\ saw[p] = "valid" /\ cfg = Json(res[p].value)
    /\ cfg # init0
    /\ tmp = Absent /\ lock = NoProc

\* C17: when the config file does not exist at the moment update(fn) tries
\* to take the lock, update(fn) (with an fn that returns) does not fail; it
\* applies fn to a freshly synthesized default Configuration, persists the
\* result and returns it, so the file exists afterwards with fn's changes.
C17_FreshInstallUpdate ==
    \A p \in Procs :
        ( /\ Done(p) /\ IsUpdate(p) /\ pre[p] = Absent
          /\ ApplyUpdater(op[p], createDefaultConfig(0), 0).ok )
        => /\ res[p].status = "ok"
           /\ saw[p] = "none"
           /\ LET t == res[p].value.lastUpdated
              IN res[p].value =
                    Stamp(ApplyUpdater(op[p], createDefaultConfig(t), t).config, t)
           /\ cfg = Json(res[p].value)

\* upsertRepository(beta) on a fresh install, after the clock has advanced.
C17_Witness ==
    /\ Done("p1") /\ op["p1"].kind = "upsertRepository" /\ op["p1"].name = "beta"
    /\ pre["p1"] = Absent
    /\ res["p1"].status = "ok"
    /\ cfg.kind = "json"
    /\ cfg.doc.lastUpdated > 0
    /\ Len(cfg.doc.repositories) = 1
    /\ cfg.doc.repositories[1].name = "beta"
    /\ cfg.doc.repositories[1].lastUsedAt = cfg.doc.lastUpdated

\* Caller p takes a step of lockfile.lock.
LockStep(p) ==
    /\ pc[p] \in {"u_realpath", "u_lock"}
    /\ (pc'[p] # pc[p] \/ retries'[p] # retries[p])

\* C18: if update() cannot acquire the lock within its lockRetries retries
\* because another live holder keeps it, update() raises an error to its
\* caller without invoking the updater and without writing: no step of the
\* wait touches the config path or the temp path, the wait ends only after
\* lockRetries retries, and it ends the call with the error.
C18_LockTimeout ==
    /\ [](\A p \in Procs :
             (Done(p) /\ res[p].err = "ELOCKED")
                => (res[p].status = "error" /\ saw[p] = "none"))
    /\ [][\A p \in Procs :
             LockStep(p) =>
                /\ cfg' = cfg /\ tmp' = tmp
                /\ (pc[p] = "u_lock" /\ lock # NoProc /\ pc'[p] # "u_lock")
                   => /\ retries[p] = lockRetries
                      /\ pc'[p] = "idle"
                      /\ res'[p] = Err("ELOCKED")
                      /\ cur'[p] = cur[p]
                      /\ lock' = lock]_vars

\* An update() gave up after lockRetries retries while the other caller,
\* still inside its update(), holds the lock.
C18_Witness ==
    \E p \in Procs : \E q \in Procs :
        /\ Done(p) /\ IsUpdate(p) /\ res[p].err = "ELOCKED"
        /\ retries[p] = lockRetries
        /\ q # p /\ lock = q /\ InSection(q)

\* The lookups named by the claim: the first record with the pointer's name,
\* the first record flagged active; << >> stands for null.
ByName(c) ==
    LET named == SelectSeq(c.repositories, LAMBDA r : r.name = c.activeRepository)
    IN IF named = << >> THEN << >> ELSE <<named[1]>>

ByFlag(c) ==
    LET flagged == SelectSeq(c.repositories, LAMBDA r : r.isActive)
    IN IF flagged = << >> THEN << >> ELSE <<flagged[1]>>

\* C20: getActiveRepository(): if activeRepository is set it returns the
\* record with that name, or null when no record has that name; if
\* activeRepository is unset it returns the first record with isActive =
\* true; it returns null when neither resolves; it never raises.
C20_Resolution ==
    \A p \in Procs :
        (Done(p) /\ op[p].kind = "getActiveRepository" /\ saw[p] # "syntax")
        => /\ res[p].status = "ok"
           /\ res[p].found = IF res[p].value.activeRepository # UndefStr
                              THEN ByName(res[p].value)
                              ELSE ByFlag(res[p].value)

\* C19: if a process crashes while holding the update() lock, the lock is
\* not held forever: once the marker is older than the staleness window a
\* later update() acquires it, so some later update() eventually succeeds and
\* leaves the lock free.
C19_StaleLockReclaim ==
    (pc["p1"] = "crashed" /\ lock = "p1")
        ~> (lock = NoProc /\ Done("p2") /\ res["p2"].status = "ok")

\* The first process died holding the lock; an update() of the second, which
\* had to retry, has since completed and persisted its result.
C19_Witness ==
    /\ pc["p1"] = "crashed"
    /\ lock = NoProc /\ ~stale
    /\ retries["p2"] > 0
    /\ Done("p2") /\ res["p2"].status = "ok"
    /\ cfg = Json(res["p2"].value)
    /\ op["p2"].name \in RegistryNames(cfg)

\* C21: starting from an absent config file, after any finite sequence of
\* upsertRepository, updateRepository, touchRepository, setActiveRepository
\* and removeRepository calls with arbitrary arguments, the persisted
\* repositories list contains at most one record per name.
C21_NameUnique ==
    (init0 = Absent /\ cfg.kind = "json") =>
        \A i \in DOMAIN cfg.doc.repositories :
            \A j \in DOMAIN cfg.doc.repositories :
                cfg.doc.repositories[i].name = cfg.doc.repositories[j].name => i = j

\* C22: for a record that stays registered, across upsertRepository,
\* updateRepository and touchRepository calls (with arbitrary caller-supplied
\* createdAt / lastUsedAt and a non-decreasing clock) its persisted createdAt
\* and lastUsedAt never become earlier than a value they held before.
C22_TimestampsMonotonic ==
    \A p \in Procs :
        ( /\ Done(p) /\ res[p].status = "ok"
          /\ op[p].kind \in {"upsertRepository", "updateRepository", "touchRepository"}
          /\ ParseOutcome(pre[p]) = "valid" /\ cfg.kind = "json" )
        => \A i \in DOMAIN pre[p].doc.repositories :
              /\ i \in DOMAIN cfg.doc.repositories
              /\ cfg.doc.repositories[i].createdAt >= pre[p].doc.repositories[i].createdAt
              /\ cfg.doc.repositories[i].lastUsedAt >= pre[p].doc.repositories[i].lastUsedAt

C24_ReadHasNoWrite ==
    \A p \in Procs :
        ( /\ ~Idle(p) \/ Done(p)
          /\ op[p].kind = "read" /\ ParseOutcome(pre[p]) = "valid" )
        => /\ ~Writing(p)
           /\ cfg = pre[p]
           /\ tmp = Absent
           /\ Done(p) => res[p].status = "ok"

\* A read() of a stored document of an old version has returned the stamped
\* value and the stored document still has the old version.
C24_Witness ==
    /\ Done("p1") /\ op["p1"].kind = "read" /\ res["p1"].status = "ok"
    /\ ParseOutcome(pre["p1"]) = "valid"
    /\ pre["p1"].doc.version = OldVersion
    /\ res["p1"].value.version = CONFIG_VERSION
    /\ cfg = pre["p1"] /\ cfg.doc.version = OldVersion

\* C25: migration is forward-only and non-destructive: a read() of a valid
\* document whose stored version is not the current one returns a
\* Configuration whose version is the current one and whose repositories,
\* activeRepository and preferences are exactly the stored ones.
C25_MigrationKeepsData ==
    \A p \in Procs :
        ( /\ Done(p) /\ op[p].kind = "read"
          /\ ParseOutcome(pre[p]) = "valid"
          /\ pre[p].doc.version # CONFIG_VERSION )
        => /\ res[p].status = "ok"
           /\ res[p].value.version = CONFIG_VERSION
           /\ res[p].value.repositories = pre[p].doc.repositories
           /\ res[p].value.activeRepository = pre[p].doc.activeRepository
           /\ res[p].value.preferences = pre[p].doc.preferences

\* A stored document of an old version with a repository and a pointer has
\* been read.
C25_Witness ==
    /\ Done("p1") /\ op["p1"].kind = "read"
    /\ ParseOutcome(pre["p1"]) = "valid"
    /\ pre["p1"].doc.version = OldVersion
    /\ Len(pre["p1"].doc.repositories) = 1
    /\ pre["p1"].doc.activeRepository = "alpha"
    /\ res["p1"].value.repositories = pre["p1"].doc.repositories

\* C26: removeRepository(name) with name not the active repository leaves
\* activeRepository, debug and preferences unchanged, and the stored list is
\* the list of before without the records called name: every other record,
\* its isActive flag included, is unchanged and in the same relative order.
\* The call changes nothing but the configuration document.
C26_RemoveFrame ==
    \A p \in Procs :
        ( /\ Done(p) /\ op[p].kind = "removeRepository" /\ res[p].status = "ok"
          /\ ParseOutcome(pre[p]) = "valid"
          /\ pre[p].doc.activeRepository # op[p].name )
        => /\ cfg.kind = "json"
           /\ cfg.doc.activeRepository = pre[p].doc.activeRepository
           /\ cfg.doc.debug = pre[p].doc.debug
           /\ cfg.doc.preferences = pre[p].doc.preferences
           /\ cfg.doc.repositories =
                 SelectSeq(pre[p].doc.repositories, LAMBDA r : r.name # op[p].name)
           /\ tmp = Absent /\ lock = NoProc

\* The inactive one of two registered repositories has been removed.
C26_Witness ==
    /\ Done("p1") /\ op["p1"].kind = "removeRepository" /\ res["p1"].status = "ok"
    /\ ParseOutcome(pre["p1"]) = "valid"
    /\ Len(pre["p1"].doc.repositories) = 2
    /\ pre["p1"].doc.activeRepository \in Names \ {op["p1"].name}
    /\ op["p1"].name \in RegistryNames(pre["p1"])
    /\ Len(cfg.doc.repositories) = 1
    /\ cfg.doc.repositories[1].isActive

\* C27: touchRepository(name) changes lastUsedAt of the record it finds by
\* name and nothing else: every other field of that record, every other
\* record, activeRepository, debug and preferences are unchanged; when no
\* record has that name the list and the pointer are unchanged and the call
\* reports no error.
C27_TouchFrame ==
    \A p \in Procs :
        (Done(p) /\ op[p].kind = "touchRepository" /\ ParseOutcome(pre[p]) = "valid")
        => LET old == pre[p].doc.repositories
               new == cfg.doc.repositories
               k == IndexOf(old, op[p].name)
           IN /\ res[p].status = "ok"
              /\ cfg.kind = "json"
              /\ cfg.doc.activeRepository = pre[p].doc.activeRepository
              /\ cfg.doc.debug = pre[p].doc.debug
              /\ cfg.doc.preferences = pre[p].doc.preferences
              /\ DOMAIN new = DOMAIN old
              /\ \A i \in DOMAIN old :
                    IF i = k
                    THEN /\ new[i] = [old[i] EXCEPT !.lastUsedAt = new[i].lastUsedAt]
                         /\ new[i].lastUsedAt >= old[i].lastUsedAt
                         /\ new[i].lastUsedAt <= cfg.doc.lastUpdated
                    ELSE new[i] = old[i]

\* The second of two records has been touched at a later time.
C27_Witness ==
    /\ Done("p1") /\ op["p1"].kind = "touchRepository" /\ res["p1"].status = "ok"
    /\ ParseOutcome(pre["p1"]) = "valid"
    /\ Len(pre["p1"].doc.repositories) = 2
    /\ IndexOf(pre["p1"].doc.repositories, op["p1"].name) = 2
    /\ cfg.doc.repositories[2].lastUsedAt > pre["p1"].doc.repositories[2].lastUsedAt

\* A touch of a name that no record has has returned.
C27_WitnessNotFound ==
    /\ Done("p1") /\ op["p1"].kind = "touchRepository" /\ res["p1"].status = "ok"
    /\ ParseOutcome(pre["p1"]) = "valid"
    /\ Len(pre["p1"].doc.repositories) = 1
    /\ IndexOf(pre["p1"].doc.repositories, op["p1"].name) = 0

C30_WriteUnderLock ==
    \A p \in Procs : (IsUpdate(p) /\ Writing(p)) => lock = p

\* getActiveRepository() has resolved with null for caller p.
NullGet(p) ==
    /\ pc[p] = "idle" /\ op[p].kind = "getActiveRepository"
    /\ res[p].status = "ok" /\ res[p].found = << >>

\* The handler of caller p takes a step on a null result, or on a rejection.
OnNull(p) ==
    (NullGet(p) /\ h[p].step = "s1" /\ h'[p] # h[p])
    => (h'[p].step = "returned" /\ op'[p] = op[p] /\ pc'[p] = "idle")
OnReject(p) ==
    (h[p].step \in {"s1", "s2"} /\ pc[p] = "idle" /\ res[p].status = "error"
     /\ h'[p] # h[p])
    => (h'[p].step = "returned" /\ ~h'[p].out.success /\ h'[p].out.error # ""
        /\ h'[p].out.cause = res[p].err)

\* The payload a handler has returned after a null result is a failure with
\* the guidance message of that handler.
Guided(p) ==
    /\ ~h[p].out.success
    /\ h[p].out.error =
          IF h[p].kind \in ArtifactHandlers THEN NoActiveInit ELSE NoActiveSwitch

\* C29 (as stated): when getActiveRepository() returns null, publish_artifact,
\* list_artifacts and get_active_repository return a failure payload with a
\* guidance message, call nothing else and have performed no configuration
\* write; when a ConfigService call rejects, the handlers return
\* {success: false, error} and never throw.
C29_HandlersNeverCrash ==
    /\ [](\A p \in Procs :
             /\ h[p].step # "threw"
             /\ (h[p].step = "returned" /\ NullGet(p))
                   => (Guided(p) /\ wctx[p] = "none")
             /\ (h[p].step = "returned" /\ res[p].status = "error")
                   => (~h[p].out.success /\ h[p].out.cause = res[p].err))
    /\ [][\A p \in Procs : OnNull(p) /\ OnReject(p)]_vars

\* C29 (amended): as above, except that the getActiveRepository() call of the
\* handler may itself have written the file, through read() creating a
\* missing config file or replacing a document the schema rejects; the
\* handler makes no other write and no touchRepository call.
C29_HandlersNeverCrashBootstrap ==
    /\ [](\A p \in Procs :
             /\ h[p].step # "threw"
             /\ (h[p].step = "returned" /\ NullGet(p))
                   => /\ Guided(p)
                      /\ wctx[p] \in {"none", "boot", "repair"}
                      /\ wctx[p] # "none" => ParseOutcome(pre[p]) # "valid"
             /\ (h[p].step = "returned" /\ res[p].status = "error")
                   => (~h[p].out.success /\ h[p].out.cause = res[p].err))
    /\ [][\A p \in Procs : OnNull(p) /\ OnReject(p)]_vars

\* publish_artifact has returned its guidance payload on an existing, empty
\* registry, which it left as it was.
C29_Witness ==
    /\ h["p1"].kind = "publish_artifact" /\ h["p1"].step = "returned"
    /\ NullGet("p1")
    /\ h["p1"].out = Failure(NoActiveInit)
    /\ ParseOutcome(pre["p1"]) = "valid" /\ cfg = pre["p1"]

\* switch_repository has returned a failure payload for each kind of
\* rejection: the record was removed after the handler's lookup, the lock was
\* not obtained, the write failed, the file could not be parsed.
C29_WitnessCauses ==
    /\ h["p1"].kind = "switch_repository" /\ h["p1"].step = "returned"
    /\ ~h["p1"].out.success
    /\ h["p1"].out.cause = "NotFound"
C29_WitnessLock ==
    /\ h["p1"].kind = "remove_repository" /\ h["p1"].step = "returned"
    /\ h["p1"].out.cause = "ELOCKED"
C29_WitnessWrite ==
    /\ h["p1"].kind = "get_active_repository" /\ h["p1"].step = "returned"
    /\ h["p1"].out.cause = "WriteFailed" /\ wctx["p1"] = "boot"
C29_WitnessParse ==
    /\ h["p1"].kind = "list_repositories" /\ h["p1"].step = "returned"
    /\ h["p1"].out.cause = "ReadFailed" /\ cfg.kind = "garbage"

\* C31: once upsertRepository(X) has returned successfully, X is in the
\* persisted repositories as long as no removeRepository(X) is called,
\* whatever read() and update() calls of another caller overlap with it.
C31_Durable ==
    \A p \in Procs :
        ( /\ Done(p) /\ op[p].kind = "upsertRepository" /\ res[p].status = "ok"
          /\ ncalls <= 2
          /\ \A q \in Procs \ {p} :
                ~(op[q].kind = "removeRepository" /\ op[q].name = op[p].name) )
        => op[p].name \in RegistryNames(cfg)

\* The updater of caller p's update(fn) raises on the document the call found.
FnRaises(p) ==
    /\ op[p].kind = "update"
    /\ ~Idle(p) \/ Done(p)
    /\ ParseOutcome(pre[p]) = "valid"
    /\ ~fnUpdater(migrate(pre[p].doc), op[p].name).ok

\* C32: update(fn) is all-or-nothing on updater failure: when fn raises an
\* error, whatever its type or code, while the file exists, fn is not invoked
\* a second time, no write is performed, the persisted document stays what
\* it was and the call ends with an error.
C32_AllOrNothing ==
    \A p \in Procs :
        FnRaises(p)
        => /\ pc[p] # "fb_fn"
           /\ ~Writing(p)
           /\ cfg = pre[p]
           /\ Done(p) => res[p].status = "error"

\* C33: starting from an absent config file, after any sequence of
\* upsertRepository, setActiveRepository and removeRepository calls, failed
\* ones included, activeRepository is set if and only if the repositories
\* list is not empty, and when set it names a record of the list.
C33_PointerValid ==
    (init0 = Absent /\ cfg.kind = "json") =>
        /\ cfg.doc.activeRepository # UndefStr <=> Len(cfg.doc.repositories) > 0
        /\ cfg.doc.activeRepository # UndefStr =>
              cfg.doc.activeRepository \in RegistryNames(cfg)

\* The active one of two repositories has been removed and the pointer names
\* the one that is left.
C33_Witness ==
    /\ init0 = Absent
    /\ Done("p1") /\ op["p1"].kind = "removeRepository" /\ res["p1"].status = "ok"
    /\ ParseOutcome(pre["p1"]) = "valid"
    /\ Len(pre["p1"].doc.repositories) = 2
    /\ pre["p1"].doc.activeRepository = op["p1"].name
    /\ Len(cfg.doc.repositories) = 1
    /\ cfg.doc.activeRepository = cfg.doc.repositories[1].name

\* A setActiveRepository call of an unregistered name has failed on a
\* registry that holds a repository.
C33_WitnessFailed ==
    /\ init0 = Absent
    /\ Done("p1") /\ op["p1"].kind = "setActiveRepository"
    /\ res["p1"].status = "error"
    /\ cfg.kind = "json" /\ Len(cfg.doc.repositories) = 1

\* C34: starting from an absent config file, after any sequence of
\* upsertRepository (any isActive argument), setActiveRepository and
\* removeRepository calls, whenever getActiveRepository() returns a record,
\* that record has isActive = true.
C34_FlagAgrees ==
    (init0 = Absent /\ ParseOutcome(cfg) = "valid") =>
        LET found == getActiveRepository(migrate(cfg.doc))
        IN found # << >> => found[1].isActive

\* C35: updateRepository(name, fields) leaves the selection state and the keys
\* alone for any fields argument: activeRepository, every record's isActive
\* flag and the set of record names are as before, and the list is unchanged
\* when no record has that name.
C35_UpdateFrame ==
    \A p \in Procs :
        ( /\ Done(p) /\ op[p].kind = "updateRepository" /\ res[p].status = "ok"
          /\ ParseOutcome(pre[p]) = "valid" )
        => LET old == pre[p].doc.repositories
               new == Registry(cfg)
           IN /\ cfg.doc.activeRepository = pre[p].doc.activeRepository
              /\ DOMAIN new = DOMAIN old
              /\ \A i \in DOMAIN old : new[i].isActive = old[i].isActive
              /\ RegistryNames(cfg) = RegistryNames(pre[p])
              /\ IndexOf(old, op[p].name) = 0 => new = old

\* C36: every update() call of a process that keeps running eventually
\* finishes, returning the updated Configuration or raising an error,
\* whatever the other process does with the lock (holds it, stops while
\* holding it, dies); the call never makes more than lockRetries retries.
C36_Terminates ==
    /\ [](retries["p2"] <= lockRetries)
    /\ (pc["p2"] # "idle") ~> Done("p2")

\* An update() has ended with the lock error while the process that died
\* holding the lock still owns a marker that is not stale.
C36_Witness ==
    /\ Done("p2") /\ IsUpdate("p2")
    /\ res["p2"] = Err("ELOCKED")
    /\ retries["p2"] = lockRetries
    /\ pc["p1"] = "crashed" /\ lock = "p1" /\ ~stale

\* C37: when initializeToybox(repoName) has run its registry step and returned
\* success, with no other operation running, the persisted document has
\* activeRepository = repoName and repoName's record is the only one with
\* isActive = true, whatever the registry held before.
C37_InitActivates ==
    \A p \in Procs :
        ( /\ h[p].kind = "initialize_toybox"
          /\ h[p].step = "returned"
          /\ h[p].out.success )
        => /\ cfg.kind = "json"
           /\ cfg.doc.activeRepository = h[p].name
           /\ h[p].name \in RegistryNames(cfg)
           /\ \A i \in DOMAIN cfg.doc.repositories :
                 cfg.doc.repositories[i].isActive
                   <=> cfg.doc.repositories[i].name = h[p].name

\* initializeToybox("beta") returned success on a registry that had alpha
\* active and beta registered.
C37_Witness ==
    /\ h["p1"].kind = "initialize_toybox"
    /\ h["p1"].step = "returned"
    /\ h["p1"].out.success
    /\ h["p1"].name = "beta"
    /\ ncalls = 1
    /\ init0.kind = "json"
    /\ init0.doc.activeRepository = "alpha"
    /\ Len(init0.doc.repositories) = 2

\* initializeToybox("beta") returned success on a registry that held alpha
\* alone, active: beta's record was appended.
C37_WitnessAppend ==
    /\ h["p1"].kind = "initialize_toybox"
    /\ h["p1"].step = "returned"
    /\ h["p1"].out.success
    /\ h["p1"].name = "beta"
    /\ ncalls = 1
    /\ init0.kind = "json"
    /\ Len(init0.doc.repositories) = 1
    /\ Len(cfg.doc.repositories) = 2

====
